---- MODULE Spec2Model ----
(***************************************************************************)
(* Marker lifecycle of the map viewer (src/src/components/MapContainer.tsx, *)
(* the vanilla-Leaflet component at lines 323-629): the saved-locations     *)
(* list, the marker-handle map, the layers drawn on the Leaflet map, the    *)
(* geocoding search, export / import and the style switch.                  *)
(*                                                                         *)
(* Abstractions: coordinates are whole degrees (integers); a Leaflet layer  *)
(* is identified by its stamp; a JSON text is kept as its syntax tree with  *)
(* numbers in sign / decimal-digit form.                                    *)
(***************************************************************************)
EXTENDS Integers, Sequences, FiniteSets, TLC

VARIABLES
  mounted,       \* the component is rendered and map.current is set
  savedMarkers,  \* useState<MarkerData[]>: [t |-> "array" | "object", elems]
  markersRef,    \* markersRef.current: id -> Leaflet marker (stamp)
  markerLayers,  \* marker layers drawn on the map surface
  tileLayers,    \* tile layers on the map, in the order they were added
  mapStyle,      \* useState: selected style
  searchQuery,   \* useState: text of the search box
  pending,       \* fetches awaiting their response
  issued,        \* number of fetches issued in this session
  reading,       \* FileReader reads awaiting onload
  download,      \* text of the last exported file
  localStorage,  \* the browser's local storage entry for the list
  toast,         \* the last notice shown
  clock          \* Date.now()

vars == << mounted, savedMarkers, markersRef, markerLayers, tileLayers,
           mapStyle, searchQuery, pending, issued, reading, download,
           localStorage, toast, clock >>

-----------------------------------------------------------------------------
(* Bounds *)

MaxMarkers == 2

MaxLayers == 3

MaxClock == 2

MaxSearches == 2

MaxReads == 1

-----------------------------------------------------------------------------
(* Values *)

Abs(n) == IF n < 0 THEN -n ELSE n

mapStyles == {"streets", "satellite", "dark", "light"}

NoFile == [syntax |-> "none", root |-> "none", body |-> << >>]

Array(elems) == [t |-> "array", elems |-> elems]

NotAnArray == [t |-> "object", elems |-> << >>]

Numbers(lat, lng) == [t |-> "numbers", lat |-> lat, lng |-> lng]

MarkerData(id, name, lat, lng) ==
  [id |-> id, name |-> name, coordinates |-> Numbers(lat, lng)]

Notice(kind, msg) == [kind |-> kind, msg |-> msg]

(* useState<MarkerData[]>([]) (line 328), also what the closures of the     *)
(* mount effect hold as savedMarkers                                        *)
InitialMarkers == Array(<< >>)

Undefined == [t |-> "undefined", lat |-> 0, lng |-> 0]

Strings(lat, lng) == [t |-> "strings", lat |-> lat, lng |-> lng]

EmptyRef == [k \in {} |-> 0]

ids(list) == {list[i].id : i \in 1..Len(list)}

handles(ref) == {ref[k] : k \in DOMAIN ref}

stamps(layers) == {l.stamp : l \in layers}

(* `Location ${savedMarkers.length + 1}` *)
LocationName(n) == "Location " \o ToString(n)

(* String.prototype.trim on the texts the search box takes *)
Trim(q) == IF q = " " THEN "" ELSE q

-----------------------------------------------------------------------------
(* Numbers as text: sign and decimal digits *)

RECURSIVE Digits(_)
Digits(n) == IF n < 10 THEN << n >> ELSE Append(Digits(n \div 10), n % 10)

RECURSIVE DigitsValue(_)
DigitsValue(d) ==
  IF Len(d) = 0 THEN 0
  ELSE 10 * DigitsValue(SubSeq(d, 1, Len(d) - 1)) + d[Len(d)]

NumberToText(n) == [neg |-> n < 0, digits |-> Digits(Abs(n))]

(* parseFloat, and JSON.parse of a number, on a decimal text *)
parseFloat(txt) ==
  IF txt.neg THEN 0 - DigitsValue(txt.digits) ELSE DigitsValue(txt.digits)

-----------------------------------------------------------------------------
(* JSON.stringify / JSON.parse of the saved list *)

(* Mutant: the pair is written in GeoJSON order, longitude first *)
StringifyCoordinatesLngLat(c) ==
  IF c.t = "undefined"
  THEN [t |-> "absent", lat |-> NumberToText(0), lng |-> NumberToText(0)]
  ELSE [t |-> c.t, lat |-> NumberToText(c.lng), lng |-> NumberToText(c.lat)]

StringifyCoordinates(c) ==
  IF c.t = "undefined"
  THEN [t |-> "absent", lat |-> NumberToText(0), lng |-> NumberToText(0)]
  ELSE [t |-> c.t, lat |-> NumberToText(c.lat), lng |-> NumberToText(c.lng)]

StringifyMarker(m) ==
  [id |-> m.id, name |-> m.name,
   coordinates |-> StringifyCoordinates(m.coordinates)]

JSONStringify(value) ==
  IF value.t = "array"
  THEN [syntax |-> "json", root |-> "array",
        body |-> [i \in 1..Len(value.elems) |-> StringifyMarker(value.elems[i])]]
  ELSE [syntax |-> "json", root |-> "object", body |-> << >>]

ParseCoordinates(c) ==
  IF c.t = "absent" THEN Undefined
  ELSE [t |-> c.t, lat |-> parseFloat(c.lat), lng |-> parseFloat(c.lng)]

ParseMarker(o) ==
  [id |-> o.id, name |-> o.name, coordinates |-> ParseCoordinates(o.coordinates)]

JSONParseThrows(text) == text.syntax # "json"

JSONParse(text) ==
  IF text.root = "array"
  THEN Array([i \in 1..Len(text.body) |-> ParseMarker(text.body[i])])
  ELSE NotAnArray

-----------------------------------------------------------------------------
(* Inputs: clicked points, search texts, geocoder answers, files to import *)

ClickPoints == { << 40, -70 >> }

Queries == { " ", "A", "B" }

Candidate(lat, lon, name) ==
  [lat |-> NumberToText(lat), lon |-> NumberToText(lon), display_name |-> name]

(* What the geocoder ranks for a query when it finds something *)
Geocode(q) ==
  CASE q = "A" -> << Candidate(48, 2, "Paris"), Candidate(33, -95, "Paris, Texas") >>
    [] q = "B" -> << Candidate(-12, -77, "Lima") >>
    [] OTHER   -> << >>

(* What a fetch produces: the ranked candidates, an empty list, a JSON body *)
(* that is no list, or a rejected fetch / response.json()                   *)
Outcomes == { "candidates", "empty", "notalist", "rejected" }

Data(q, outcome) == IF outcome = "candidates" THEN Geocode(q) ELSE << >>

JsonFile(elems) == JSONStringify(Array(elems))

Home == MarkerData("1", "Home", 40, -70)

Work == MarkerData("7", "Work", -10, 20)

Work2 == MarkerData("7", "Work again", 10, 20)

Far == MarkerData("8", "Far", 200, 500)

NoCoordinates == [id |-> "9", name |-> "Nowhere", coordinates |-> Undefined]

StringCoordinates == [id |-> "9", name |-> "Texts", coordinates |-> Strings(12, 34)]

GarbageFile == [syntax |-> "garbage", root |-> "none", body |-> << >>]

ObjectFile == JSONStringify(NotAnArray)

Files ==
  { GarbageFile, ObjectFile,
    JsonFile(<< Home, Work >>),
    JsonFile(<< Work, Work2 >>),
    JsonFile(<< Far >>),
    JsonFile(<< Home, NoCoordinates >>),
    JsonFile(<< StringCoordinates >>) }


-----------------------------------------------------------------------------
(* State after construction and the mount effects *)

Init ==
  /\ mounted = TRUE
  /\ savedMarkers = InitialMarkers
  /\ markersRef = EmptyRef
  /\ markerLayers = {}
  /\ tileLayers = << "streets" >>
  /\ mapStyle = "streets"
  /\ searchQuery = ""
  /\ pending = {}
  /\ issued = 0
  /\ reading = {}
  /\ download = NoFile
  /\ localStorage = NoFile
  /\ toast = Notice("none", "")
  /\ clock = 1

-----------------------------------------------------------------------------
(* Rendering *)

(* The list rendering (lines 574-609) reads savedMarkers.length, calls      *)
(* savedMarkers.map and marker.coordinates[i].toFixed(4): it throws on a    *)
(* value that is not an array and on coordinates that are not numbers.      *)
RenderThrows(value) ==
  \/ value.t # "array"
  \/ \E i \in 1..Len(value.elems) : value.elems[i].coordinates.t # "numbers"

(* useEffect [mapStyle] (lines 354-367): every tile layer is removed, then  *)
(* the layer of the selected style is added.                                *)
(* Mutant: the instanceof test is left out, every layer counts as a tile *)
IsAnyLayer(kind) == TRUE

(* layer instanceof L.TileLayer (line 359) *)
IsTileLayer(kind) == kind = "tile"

(* Mutant: the layer of the selected style is added and nothing is removed *)
UpdateMapStyleKeepsTiles(markers, tiles, style) ==
  [markers |-> markers, tiles |-> tiles \o << style >>]

UpdateMapStyle(markers, tiles, style) ==
  [markers |-> { l \in markers : ~IsTileLayer("marker") },
   tiles   |-> SelectSeq(tiles, LAMBDA l : ~IsTileLayer("tile")) \o << style >>]

-----------------------------------------------------------------------------
(* Marker handles *)

Put(ref, id, marker) ==
  [k \in DOMAIN ref \cup {id} |-> IF k = id THEN marker ELSE ref[k]]

(* Mutant: the entry is not deleted from the handle map                    *)
DeleteKeepsEntry(ref, id) == ref

Delete(ref, id) == [k \in DOMAIN ref \ {id} |-> ref[k]]

Layer(stamp, coordinates) == [stamp |-> stamp, coordinates |-> coordinates]

(* L.marker(...): a new marker object, named by the least stamp that no     *)
(* marker on the map carries                                                *)
NewStamp(layers) ==
  CHOOSE n \in 1..(Cardinality(layers) + 1) :
    /\ n \notin stamps(layers)
    /\ \A m \in 1..(n - 1) : m \in stamps(layers)

(* Date.now().toString() *)
NewId == ToString(clock)


(* Mutant: the new entry is put first, [newMarker, ...prev]                 *)
addMarkerPrepend(lat, lng, name) ==
  /\ mounted
  /\ markerLayers' =
       markerLayers \cup { Layer(NewStamp(markerLayers), Numbers(lat, lng)) }
  /\ markersRef' = Put(markersRef, NewId, NewStamp(markerLayers))
  /\ savedMarkers' =
       Array(<< MarkerData(NewId, name, lat, lng) >> \o savedMarkers.elems)
  /\ toast' = Notice("success", "Added " \o name)

(* Mutant: the list is set from the list the handler's closure holds,      *)
(* setSavedMarkers([...savedMarkers, newMarker]), which is the initial list *)
addMarkerStaleList(lat, lng, name) ==
  /\ mounted
  /\ markerLayers' =
       markerLayers \cup { Layer(NewStamp(markerLayers), Numbers(lat, lng)) }
  /\ markersRef' = Put(markersRef, NewId, NewStamp(markerLayers))
  /\ savedMarkers' =
       Array(Append(InitialMarkers.elems, MarkerData(NewId, name, lat, lng)))
  /\ toast' = Notice("success", "Added " \o name)

(* addMarker (lines 369-393) *)
addMarker(lat, lng, name) ==
  /\ mounted
  /\ markerLayers' =
       markerLayers \cup { Layer(NewStamp(markerLayers), Numbers(lat, lng)) }
  /\ markersRef' = Put(markersRef, NewId, NewStamp(markerLayers))
  /\ savedMarkers' =
       Array(Append(savedMarkers.elems, MarkerData(NewId, name, lat, lng)))
  /\ toast' = Notice("success", "Added " \o name)

CanAdd ==
  /\ Len(savedMarkers.elems) < MaxMarkers
  /\ Cardinality(markerLayers) < MaxLayers

-----------------------------------------------------------------------------
(* Handlers *)

(* Date.now() advances *)
Tick ==
  /\ clock < MaxClock
  /\ clock' = clock + 1
  /\ UNCHANGED << mounted, savedMarkers, markersRef, markerLayers, tileLayers,
                  mapStyle, searchQuery, pending, issued, reading, download,
                  localStorage, toast >>

(* map.current.on('click', ...) (lines 343-346); the handler is the one     *)
(* registered by the mount effect, whose savedMarkers is the initial list.  *)
MapClick(p) ==
  /\ mounted
  /\ CanAdd
  /\ addMarker(p[1], p[2], LocationName(Len(InitialMarkers.elems) + 1))
  /\ UNCHANGED << mounted, tileLayers, mapStyle, searchQuery, pending, issued,
                  reading, download, localStorage, clock >>

(* Mutant: the entry is cut out by position, splice(findIndex(...), 1),    *)
(* which for an id that is not found cuts the last entry                   *)
removeMarkerSplice(id) ==
  /\ mounted
  /\ IF id \in DOMAIN markersRef
     THEN /\ markerLayers' = { l \in markerLayers : l.stamp # markersRef[id] }
          /\ markersRef' = Delete(markersRef, id)
     ELSE UNCHANGED << markerLayers, markersRef >>
  /\ savedMarkers' =
       IF id \in ids(savedMarkers.elems)
       THEN Array(SelectSeq(savedMarkers.elems, LAMBDA m : m.id # id))
       ELSE Array(SubSeq(savedMarkers.elems, 1, Len(savedMarkers.elems) - 1))
  /\ toast' = Notice("success", "Marker removed")
  /\ UNCHANGED << mounted, tileLayers, mapStyle, searchQuery, pending, issued,
                  reading, download, localStorage, clock >>

(* removeMarker (lines 395-402) *)
removeMarker(id) ==
  /\ mounted
  /\ IF id \in DOMAIN markersRef
     THEN /\ markerLayers' = { l \in markerLayers : l.stamp # markersRef[id] }
          /\ markersRef' = Delete(markersRef, id)
     ELSE UNCHANGED << markerLayers, markersRef >>
  /\ savedMarkers' = Array(SelectSeq(savedMarkers.elems, LAMBDA m : m.id # id))
  /\ toast' = Notice("success", "Marker removed")
  /\ UNCHANGED << mounted, tileLayers, mapStyle, searchQuery, pending, issued,
                  reading, download, localStorage, clock >>

(* onChange of the search box (line 508) *)
SetSearchQuery(q) ==
  /\ mounted
  /\ q # searchQuery
  /\ searchQuery' = q
  /\ UNCHANGED << mounted, savedMarkers, markersRef, markerLayers, tileLayers,
                  mapStyle, pending, issued, reading, download, localStorage,
                  toast, clock >>

(* Mutant: the query is tested without trim, if (!searchQuery || ...)      *)
SearchLocationNoTrim ==
  /\ mounted
  /\ issued < MaxSearches
  /\ IF searchQuery = ""
     THEN UNCHANGED << pending, issued >>
     ELSE /\ issued' = issued + 1
          /\ pending' = pending \cup { [n |-> issued + 1, q |-> searchQuery] }
  /\ UNCHANGED << mounted, savedMarkers, markersRef, markerLayers, tileLayers,
                  mapStyle, searchQuery, reading, download, localStorage,
                  toast, clock >>

(* searchLocation up to its await (lines 404-410) *)
SearchLocation ==
  /\ mounted
  /\ issued < MaxSearches
  /\ IF Trim(searchQuery) = ""
     THEN UNCHANGED << pending, issued >>
     ELSE /\ issued' = issued + 1
          /\ pending' = pending \cup { [n |-> issued + 1, q |-> searchQuery] }
  /\ UNCHANGED << mounted, savedMarkers, markersRef, markerLayers, tileLayers,
                  mapStyle, searchQuery, reading, download, localStorage,
                  toast, clock >>

(* Mutant: data[0] is read without the length test, so an answer without   *)
(* candidates throws and ends in the catch branch                          *)
SearchResponseNoLengthTest(r, outcome) ==
  /\ mounted
  /\ r \in pending
  /\ pending' = pending \ {r}
  /\ IF outcome = "rejected" \/ outcome = "notalist" \/ Len(Data(r.q, outcome)) = 0
     THEN /\ toast' = Notice("error", "Search failed")
          /\ UNCHANGED << savedMarkers, markersRef, markerLayers,
                          searchQuery >>
     ELSE /\ CanAdd
          /\ addMarker(parseFloat(Data(r.q, outcome)[1].lat),
                       parseFloat(Data(r.q, outcome)[1].lon),
                       Data(r.q, outcome)[1].display_name)
          /\ searchQuery' = ""
  /\ UNCHANGED << mounted, tileLayers, mapStyle, issued, reading, download,
                  localStorage, clock >>

(* Mutant: the last candidate is taken instead of the first *)
SearchResponseLastCandidate(r, outcome) ==
  /\ mounted
  /\ r \in pending
  /\ pending' = pending \ {r}
  /\ IF outcome = "rejected"
     THEN /\ toast' = Notice("error", "Search failed")
          /\ UNCHANGED << savedMarkers, markersRef, markerLayers,
                          searchQuery >>
     ELSE IF outcome # "notalist" /\ Len(Data(r.q, outcome)) > 0
     THEN LET data == Data(r.q, outcome) IN
          /\ CanAdd
          /\ addMarker(parseFloat(data[Len(data)].lat),
                       parseFloat(data[Len(data)].lon),
                       data[Len(data)].display_name)
          /\ searchQuery' = ""
     ELSE /\ toast' = Notice("error", "Location not found")
          /\ UNCHANGED << savedMarkers, markersRef, markerLayers,
                          searchQuery >>
  /\ UNCHANGED << mounted, tileLayers, mapStyle, issued, reading, download,
                  localStorage, clock >>

(* searchLocation after its await (lines 411-429), for the request r and    *)
(* what its fetch produced                                                  *)
SearchResponse(r, outcome) ==
  /\ mounted
  /\ r \in pending
  /\ pending' = pending \ {r}
  /\ IF outcome = "rejected"
     THEN /\ toast' = Notice("error", "Search failed")
          /\ UNCHANGED << savedMarkers, markersRef, markerLayers,
                          searchQuery >>
     ELSE IF outcome # "notalist" /\ Len(Data(r.q, outcome)) > 0
     THEN /\ CanAdd
          /\ addMarker(parseFloat(Data(r.q, outcome)[1].lat),
                       parseFloat(Data(r.q, outcome)[1].lon),
                       Data(r.q, outcome)[1].display_name)
          /\ searchQuery' = ""
     ELSE /\ toast' = Notice("error", "Location not found")
          /\ UNCHANGED << savedMarkers, markersRef, markerLayers,
                          searchQuery >>
  /\ UNCHANGED << mounted, tileLayers, mapStyle, issued, reading, download,
                  localStorage, clock >>

(* onClick of a style button (line 529) and the effect it triggers *)
SetMapStyle(style) ==
  /\ mounted
  /\ mapStyle' = style
  /\ IF style = mapStyle
     THEN UNCHANGED << tileLayers, markerLayers >>
     ELSE /\ tileLayers' = UpdateMapStyle(markerLayers, tileLayers, style).tiles
          /\ markerLayers' = UpdateMapStyle(markerLayers, tileLayers, style).markers
  /\ UNCHANGED << mounted, savedMarkers, markersRef, searchQuery,
                  pending, issued, reading, download, localStorage, toast,
                  clock >>

(* exportLocations (lines 440-452); its button is disabled on an empty list *)
ExportLocations ==
  /\ mounted
  /\ Len(savedMarkers.elems) # 0
  /\ download' = JSONStringify(savedMarkers)
  /\ toast' = Notice("success", "Locations exported successfully!")
  /\ UNCHANGED << mounted, savedMarkers, markersRef, markerLayers, tileLayers,
                  mapStyle, searchQuery, pending, issued, reading,
                  localStorage, clock >>

(* importLocations (lines 454-489) up to reader.readAsText *)
ImportLocations(file) ==
  /\ mounted
  /\ file # NoFile
  /\ Cardinality(reading) < MaxReads
  /\ reading' = reading \cup {file}
  /\ UNCHANGED << mounted, savedMarkers, markersRef, markerLayers, tileLayers,
                  mapStyle, searchQuery, pending, issued, download,
                  localStorage, toast, clock >>

(* locations.forEach (lines 468-480) from element i on.  A marker is drawn  *)
(* by addTo before the popup text is built and before its handle is kept;   *)
(* with no coordinates addTo itself throws, and whether Leaflet has by then *)
(* put the icon on the map is left open (leftover).                         *)
RECURSIVE ForEachLocation(_, _, _, _, _)
ForEachLocation(elems, i, ref, layers, leftover) ==
  IF i > Len(elems)
  THEN [ref |-> ref, layers |-> layers, threw |-> FALSE]
  ELSE LET loc == elems[i]
           marker == NewStamp(layers)
       IN CASE loc.coordinates.t = "undefined" ->
                 [ref |-> ref,
                  layers |-> IF leftover
                             THEN layers \cup { Layer(marker, Undefined) }
                             ELSE layers,
                  threw |-> TRUE]
            [] loc.coordinates.t = "strings" ->
                 [ref |-> ref,
                  layers |-> layers \cup
                    { Layer(marker, Numbers(loc.coordinates.lat, loc.coordinates.lng)) },
                  threw |-> TRUE]
            [] OTHER ->
                 ForEachLocation(elems, i + 1, Put(ref, loc.id, marker),
                                 layers \cup { Layer(marker, loc.coordinates) },
                                 leftover)

InvalidFile == Notice("error", "Failed to import locations. Invalid file format.")

Imported(n) == Notice("success", "Imported " \o ToString(n) \o " locations!")

(* The body of reader.onload (lines 460-485) on the text content *)
OnloadResult(content, leftover) ==
  IF JSONParseThrows(content)
  THEN [savedMarkers |-> savedMarkers, markersRef |-> markersRef,
        markerLayers |-> markerLayers, toast |-> InvalidFile]
  ELSE LET locations == JSONParse(content)
           cleared   == { l \in markerLayers : l.stamp \notin handles(markersRef) }
       IN IF locations.t # "array"
          THEN [savedMarkers |-> locations, markersRef |-> EmptyRef,
                markerLayers |-> cleared, toast |-> InvalidFile]
          ELSE LET r == ForEachLocation(locations.elems, 1, EmptyRef, cleared,
                                        leftover)
               IN [savedMarkers |-> locations, markersRef |-> r.ref,
                   markerLayers |-> r.layers,
                   toast |-> IF r.threw THEN InvalidFile
                             ELSE Imported(Len(locations.elems))]

(* The model's bounds admit the content *)
CanImport(content) ==
  \/ JSONParseThrows(content)
  \/ /\ Len(content.body) <= MaxMarkers
     /\ Cardinality(markerLayers) - Cardinality(handles(markersRef))
          + Len(content.body) <= MaxLayers

(* reader.onload, and the render its state update schedules: a render that  *)
(* throws unmounts the component, whose cleanup (lines 348-351) removes the *)
(* map.                                                                     *)
ReaderOnload(content, leftover) ==
  /\ mounted
  /\ content \in reading
  /\ CanImport(content)
  /\ reading' = reading \ {content}
  /\ LET r == OnloadResult(content, leftover) IN
       /\ savedMarkers' = r.savedMarkers
       /\ markersRef' = r.markersRef
       /\ toast' = r.toast
       /\ IF RenderThrows(r.savedMarkers)
          THEN /\ mounted' = FALSE
               /\ markerLayers' = {}
               /\ tileLayers' = << >>
          ELSE /\ mounted' = TRUE
               /\ markerLayers' = r.markerLayers
               /\ tileLayers' = tileLayers
  /\ UNCHANGED << mapStyle, searchQuery, pending, issued, download,
                  localStorage, clock >>

(* A new session: the page is loaded again.  The list starts from its       *)
(* initial state (line 328); the clock, the downloaded file and the local   *)
(* storage outlive the session.                                             *)
NewSession ==
  /\ mounted' = TRUE
  /\ savedMarkers' = InitialMarkers
  /\ markersRef' = EmptyRef
  /\ markerLayers' = {}
  /\ tileLayers' = << "streets" >>
  /\ mapStyle' = "streets"
  /\ searchQuery' = ""
  /\ pending' = {}
  /\ issued' = 0
  /\ reading' = {}
  /\ toast' = Notice("none", "")
  /\ UNCHANGED << download, localStorage, clock >>

Removable == { ToString(c) : c \in 1..MaxClock } \cup ids(savedMarkers.elems)

Next ==
  \/ Tick
  \/ \E p \in ClickPoints : MapClick(p)
  \/ \E id \in Removable : removeMarker(id)
  \/ \E q \in Queries : SetSearchQuery(q)
  \/ SearchLocation
  \/ \E r \in pending, outcome \in Outcomes : SearchResponse(r, outcome)
  \/ \E style \in mapStyles : SetMapStyle(style)
  \/ ExportLocations
  \/ \E file \in Files \cup {download} : ImportLocations(file)
  \/ \E content \in reading, leftover \in BOOLEAN : ReaderOnload(content, leftover)
  \/ NewSession

Spec == Init /\ [][Next]_vars

(* The store: clicks, removals and imports of the files at hand *)
StoreNext ==
  \/ Tick
  \/ \E p \in ClickPoints : MapClick(p)
  \/ \E id \in Removable : removeMarker(id)
  \/ \E file \in Files : ImportLocations(file)
  \/ \E content \in reading, leftover \in BOOLEAN : ReaderOnload(content, leftover)
  \/ NewSession

StoreSpec == Init /\ [][StoreNext]_vars

(* One session of the store with export and imports of the exported file *)
RoundTripNext ==
  \/ Tick
  \/ \E p \in ClickPoints : MapClick(p)
  \/ \E id \in Removable : removeMarker(id)
  \/ ExportLocations
  \/ ImportLocations(download)
  \/ \E content \in reading, leftover \in BOOLEAN : ReaderOnload(content, leftover)

RoundTripSpec == Init /\ [][RoundTripNext]_vars

(* Clicks and the geocoding search *)
SearchNext ==
  \/ Tick
  \/ \E p \in ClickPoints : MapClick(p)
  \/ \E q \in Queries : SetSearchQuery(q)
  \/ SearchLocation
  \/ \E r \in pending, outcome \in Outcomes : SearchResponse(r, outcome)
  \/ NewSession

SearchSpec == Init /\ [][SearchNext]_vars

(* Clicks, removals, imports and the style switch *)
StyleNext ==
  \/ Tick
  \/ \E p \in ClickPoints : MapClick(p)
  \/ \E id \in Removable : removeMarker(id)
  \/ \E style \in mapStyles : SetMapStyle(style)
  \/ \E file \in {JsonFile(<< Work, Work2 >>), ObjectFile} : ImportLocations(file)
  \/ \E content \in reading, leftover \in BOOLEAN : ReaderOnload(content, leftover)
  \/ NewSession

StyleSpec == Init /\ [][StyleNext]_vars

(* Searches, and clicks, removals and imports made while a search awaits   *)
(* its response                                                            *)
PendingNext ==
  \/ Tick
  \/ SetSearchQuery("A")
  \/ SearchLocation
  \/ \E r \in pending, outcome \in Outcomes : SearchResponse(r, outcome)
  \/ pending # {} /\ \E p \in ClickPoints : MapClick(p)
  \/ pending # {} /\ \E id \in Removable : removeMarker(id)
  \/ pending # {} /\ ImportLocations(JsonFile(<< Work >>))
  \/ pending # {} /\ \E content \in reading, leftover \in BOOLEAN :
                       ReaderOnload(content, leftover)

PendingSpec == Init /\ [][PendingNext]_vars

-----------------------------------------------------------------------------
(* Properties *)

TypeOK ==
  /\ mounted \in BOOLEAN
  /\ savedMarkers.t \in {"array", "object"}
  /\ mapStyle \in mapStyles
  /\ clock \in 1..MaxClock
  /\ Cardinality(markerLayers) <= MaxLayers
  /\ Len(savedMarkers.elems) <= MaxMarkers
  /\ mounted => handles(markersRef) \subseteq stamps(markerLayers)

StoreUnchanged ==
  /\ savedMarkers' = savedMarkers
  /\ markersRef' = markersRef
  /\ markerLayers' = markerLayers

(* C1: latest call wins.  The response to a search that was issued before   *)
(* another one, arriving when every later search has been answered, is      *)
(* discarded: it adds no Location and no marker.                            *)
C1_StaleResponseDiscarded ==
  [][ \A r \in pending, outcome \in Outcomes :
        ( /\ SearchResponse(r, outcome)
          /\ r.n < issued
          /\ \A s \in pending : s.n <= r.n )
        => StoreUnchanged ]_vars

(* C2: the ids of the Locations in the store list are pairwise distinct.    *)
C2_IdsDistinct ==
  mounted =>
    \A i, j \in 1..Len(savedMarkers.elems) :
      i # j => savedMarkers.elems[i].id # savedMarkers.elems[j].id

(* A Location as the data model wants it *)
WellFormed(m) ==
  /\ m.coordinates.t = "numbers"
  /\ m.coordinates.lat \in (0 - 90)..90
  /\ m.coordinates.lng \in (0 - 180)..180

FailsValidation(content) ==
  \/ JSONParseThrows(content)
  \/ JSONParse(content).t # "array"
  \/ \E i \in 1..Len(JSONParse(content).elems) :
       ~WellFormed(JSONParse(content).elems[i])

(* C3: an import whose content fails validation leaves the store list and   *)
(* the marker handles as they were and shows the invalid-file notice.       *)
C3_ImportFailsAtomically ==
  [][ \A content \in reading, leftover \in BOOLEAN :
        (ReaderOnload(content, leftover) /\ FailsValidation(content))
        => (StoreUnchanged /\ toast' = InvalidFile) ]_vars

(* C4: the ids keyed in the handle map are the ids of the store list, and   *)
(* the markers drawn on the map are exactly the recorded handles.           *)
C4_StoreHandleCorrespondence ==
  mounted =>
    /\ DOMAIN markersRef = ids(savedMarkers.elems)
    /\ stamps(markerLayers) = handles(markersRef)

(* C5: importing the text that export produces for the current list yields  *)
(* the same list: same length, order, ids, names and coordinates.           *)
C5_ExportImportRoundTrip ==
  mounted =>
    OnloadResult(JSONStringify(savedMarkers), FALSE).savedMarkers = savedMarkers

C5_Witness ==
  /\ mounted
  /\ toast = Imported(2)
  /\ download = JSONStringify(savedMarkers)
  /\ Len(savedMarkers.elems) = 2
  /\ \E i \in 1..2 : savedMarkers.elems[i].coordinates.lng < 0

(* C6: a style change leaves the rendered markers, their handles and the    *)
(* store list as they were.                                                 *)
C6_StylePersistence ==
  [][ \A style \in mapStyles : SetMapStyle(style) => StoreUnchanged ]_vars

C6_Witness ==
  /\ mounted
  /\ mapStyle = "dark"
  /\ tileLayers = << "dark" >>
  /\ Cardinality(markerLayers) = 2
  /\ Cardinality(DOMAIN markersRef) = 2

(* C7: removing an id that is not in the store changes neither the list nor *)
(* the handles and is answered like any removal; after a removal the id is  *)
(* in neither, so a second removal of it is such a no-op.                   *)
C7_IdempotentRemoval ==
  [][ \A id \in Removable :
        removeMarker(id) =>
          /\ id \notin ids(savedMarkers.elems) => StoreUnchanged
          /\ id \notin ids(savedMarkers'.elems)
          /\ id \notin DOMAIN markersRef'
          /\ toast' = Notice("success", "Marker removed") ]_vars

C7_Witness ==
  /\ mounted
  /\ toast = Notice("success", "Marker removed")
  /\ Len(savedMarkers.elems) = MaxMarkers
  /\ Cardinality(markerLayers) = MaxMarkers

(* C8: after each mutation the list kept in local storage is the in-memory  *)
(* list.                                                                    *)
C8_PersistedEqualsMemory ==
  (mounted /\ Len(savedMarkers.elems) > 0)
    => localStorage = JSONStringify(savedMarkers)

NoCandidates(q, outcome) ==
  outcome # "rejected" /\ Len(Data(q, outcome)) = 0

FirstCandidate(q) ==
  IF q = "A" THEN MarkerData("", "Paris", 48, 2)
  ELSE MarkerData("", "Lima", 0 - 12, 0 - 77)

(* C10: a search answered with candidates appends exactly one Location,     *)
(* with the first candidate's coordinates and name, and renders exactly one *)
(* marker for it, recorded under its id.                                    *)
C10_SearchAddsFirstCandidate ==
  [][ \A r \in pending :
        (SearchResponse(r, "candidates") /\ Len(Geocode(r.q)) > 0) =>
          LET n == Len(savedMarkers.elems)
              new == savedMarkers'.elems[n + 1]
          IN /\ Len(savedMarkers'.elems) = n + 1
             /\ SubSeq(savedMarkers'.elems, 1, n) = savedMarkers.elems
             /\ new.name = FirstCandidate(r.q).name
             /\ new.coordinates = FirstCandidate(r.q).coordinates
             /\ new.id \in DOMAIN markersRef'
             /\ markerLayers' \ markerLayers =
                  { Layer(markersRef'[new.id], new.coordinates) }
             /\ markerLayers \subseteq markerLayers'
             /\ \A k \in DOMAIN markersRef' \ {new.id} :
                  k \in DOMAIN markersRef /\ markersRef'[k] = markersRef[k] ]_vars

C10_Witness ==
  /\ mounted
  /\ toast = Notice("success", "Added Lima")
  /\ Len(savedMarkers.elems) = 2
  /\ savedMarkers.elems[2].name = "Lima"
  /\ savedMarkers.elems[2].coordinates = Numbers(0 - 12, 0 - 77)
  /\ savedMarkers.elems[1].id = savedMarkers.elems[2].id

(* C11: after inserts that carry the same id only the later marker is on    *)
(* the map: every marker drawn on the map is one the handle map records.    *)
C11_NoMarkerWithoutHandle ==
  mounted => \A l \in markerLayers : l.stamp \in handles(markersRef)

(* C12: after a failed operation the component is still rendered and the    *)
(* list it holds can be rendered again without a fault.                     *)
C12_NoFailureIsFatal ==
  toast.kind = "error" => (mounted /\ ~RenderThrows(savedMarkers))

(* C13: every Location of the list has coordinates that are numbers, the    *)
(* latitude in [-90, 90] and the longitude in [-180, 180].                  *)
C13_LocationsWellFormed ==
  mounted => \A i \in 1..Len(savedMarkers.elems) : WellFormed(savedMarkers.elems[i])

(* C18: a click made when the list holds n Locations appends a Location     *)
(* named 'Location n+1' at the clicked point.                               *)
C18_DefaultNameFromCount ==
  [][ \A p \in ClickPoints :
        MapClick(p) =>
          LET n == Len(savedMarkers.elems) IN
          /\ Len(savedMarkers'.elems) = n + 1
          /\ savedMarkers'.elems[n + 1].name = LocationName(n + 1)
          /\ savedMarkers'.elems[n + 1].coordinates = Numbers(p[1], p[2]) ]_vars

IsAppend(old, new) ==
  /\ Len(new) = Len(old) + 1
  /\ SubSeq(new, 1, Len(old)) = old

IsRemoval(old, new) ==
  \E id \in ids(old) : new = SelectSeq(old, LAMBDA m : m.id # id)

(* C16: an add puts the new Location last and keeps the Locations before   *)
(* it, their order and their markers; a removal takes out the Locations    *)
(* with the given id and keeps every other Location, their order and their *)
(* markers; any other change of the list is an import (or the start of a   *)
(* new session).                                                           *)
C16_InsertionOrder ==
  [][ /\ \A p \in ClickPoints :
           MapClick(p) =>
             /\ IsAppend(savedMarkers.elems, savedMarkers'.elems)
             /\ markerLayers \subseteq markerLayers'
             /\ \A k \in DOMAIN markersRef \ {NewId} :
                  k \in DOMAIN markersRef' /\ markersRef'[k] = markersRef[k]
      /\ \A id \in Removable :
           removeMarker(id) =>
             /\ savedMarkers'.elems =
                  SelectSeq(savedMarkers.elems, LAMBDA m : m.id # id)
             /\ \A k \in DOMAIN markersRef \ {id} :
                  /\ k \in DOMAIN markersRef'
                  /\ markersRef'[k] = markersRef[k]
                  /\ \A l \in markerLayers :
                       l.stamp = markersRef[k] => l \in markerLayers'
      /\ \/ savedMarkers' = savedMarkers
         \/ IsAppend(savedMarkers.elems, savedMarkers'.elems)
         \/ IsRemoval(savedMarkers.elems, savedMarkers'.elems)
         \/ \E content \in reading, leftover \in BOOLEAN :
              ReaderOnload(content, leftover)
         \/ NewSession ]_vars

C16_Witness ==
  /\ mounted
  /\ toast = Notice("success", "Added Location 1")
  /\ Len(savedMarkers.elems) = 2
  /\ savedMarkers.elems[1] = Work
  /\ savedMarkers.elems[2].name = "Location 1"
  /\ DOMAIN markersRef = {"7", savedMarkers.elems[2].id}

(* C19: a successful import of the list L leaves the list equal to L, one  *)
(* handle per Location of L keyed by its id, whose marker is drawn at the  *)
(* Location's coordinates, and none of the markers recorded before.        *)
C19_ImportIsReset ==
  [][ \A content \in reading, leftover \in BOOLEAN :
        (/\ ReaderOnload(content, leftover)
         /\ ~JSONParseThrows(content)
         /\ toast' = Imported(Len(JSONParse(content).elems)))
        => LET L == JSONParse(content).elems
               unrecorded ==
                 { l \in markerLayers : l.stamp \notin handles(markersRef) }
           IN /\ savedMarkers' = Array(L)
              /\ DOMAIN markersRef' = ids(L)
              /\ Cardinality(handles(markersRef')) = Len(L)
              /\ \A i \in 1..Len(L) :
                   Layer(markersRef'[L[i].id], L[i].coordinates) \in markerLayers'
              /\ Cardinality(markerLayers') =
                   Cardinality(unrecorded) + Len(L) ]_vars

(* C17: a Location created by a click is not given an id that has been in  *)
(* the list and has left it (an id that the exported file shows and the    *)
(* list no longer holds is such an id), and the Locations already in the   *)
(* list keep their ids.                                                    *)
C17_IdsNeverReused ==
  [][ \A p \in ClickPoints :
        MapClick(p) =>
          /\ (download # NoFile /\ NewId \notin ids(savedMarkers.elems))
               => NewId \notin ids(JSONParse(download).elems)
          /\ \A i \in 1..Len(savedMarkers.elems) :
               savedMarkers'.elems[i].id = savedMarkers.elems[i].id ]_vars

(* C20: when the response of a search is applied after a click, a removal  *)
(* or an import made while it was awaited, the new Location is appended to *)
(* the list as it is then: the Locations of that list stay, in their       *)
(* order, with their markers, and no other Location comes back.            *)
C20_NoLostUpdate ==
  [][ \A r \in pending :
        (SearchResponse(r, "candidates") /\ Len(Geocode(r.q)) > 0) =>
          /\ IsAppend(savedMarkers.elems, savedMarkers'.elems)
          /\ ids(savedMarkers'.elems) \subseteq ids(savedMarkers.elems) \cup {NewId}
          /\ markerLayers \subseteq markerLayers'
          /\ Cardinality(markerLayers') = Cardinality(markerLayers) + 1 ]_vars

C20_Witness ==
  /\ mounted
  /\ issued = 1
  /\ pending = {}
  /\ toast = Notice("success", "Added Paris")
  /\ Len(savedMarkers.elems) = 2
  /\ savedMarkers.elems[1] = Work
  /\ savedMarkers.elems[2].name = "Paris"
  /\ Cardinality(markerLayers) = 2

(* C21: while the map exists it holds exactly one tile layer, the one of    *)
(* the selected style.                                                      *)
C21_OneTileLayerOfSelection ==
  mounted => tileLayers = << mapStyle >>

C21_Witness ==
  /\ mounted
  /\ mapStyle = "satellite"
  /\ tileLayers = << "satellite" >>
  /\ Len(savedMarkers.elems) = 1

(* C22: submitting a search whose query is empty or only whitespace changes *)
(* nothing: no request is issued, no notice is shown, and the list, the     *)
(* handles, the markers and the query text stay as they are.                *)
C22_BlankSearchIsNoOp ==
  [][ (SearchLocation /\ Trim(searchQuery) = "") => UNCHANGED vars ]_vars

C22_Witness ==
  /\ mounted
  /\ searchQuery = " "
  /\ ENABLED SearchLocation
  /\ issued = 1
  /\ pending = {}
  /\ Len(savedMarkers.elems) = 1
  /\ toast = Notice("success", "Added Paris")

====
